---- MODULE Spec2Model ----
(***************************************************************************)
(* Model of examples/Using_logprobs.ipynb: the notebook's cells run in     *)
(* order in one kernel; each request loop calls get_completion, waits for  *)
(* the client's response and post-processes the returned token             *)
(* log-probabilities (report lines, threshold decision, byte aggregation   *)
(* and UTF-8 decoding, joint probability).                                 *)
(*                                                                         *)
(* Numbers: a Python float is modelled as a binary fixed-point number with *)
(* FRAC units per 1.0.  A logprob n stands for n/FRAC nats, a probability  *)
(* v for v/FRAC.  exp is computed on that grid (series + range reduction), *)
(* so it rounds, underflows to 0 and is exactly 1 at 0, as a float exp.    *)
(***************************************************************************)
EXTENDS Integers, Sequences, FiniteSets, TLC

(* ---------------------------------------------------------------- bounds *)
MaxTokens == 2          \* longest generated token sequence the service returns
NumHeadlines == 2       \* entries of `headlines` that are looped over
NumQuestions == 1       \* entries of easy_questions / medium_questions
NumSentences == 2       \* entries of sentence_list
MaxHighlightTokens == 6 \* longest token sequence handed to highlight_text alone

(* ------------------------------------------------------------ arithmetic *)
FRAC == 32768           \* fixed-point 1.0
EINV == 12055           \* exp(-1) on the grid
THRESHOLD == 31130      \* the literal .95 on the grid (nearest grid value)

RECURSIVE ExpSeries(_, _)
ExpSeries(r, k) ==
  IF k > 8 THEN FRAC ELSE FRAC - ((r * ExpSeries(r, k + 1)) \div (FRAC * k))

RECURSIVE ExpScale(_, _)
ExpScale(v, q) ==
  IF q = 0 \/ v = 0 THEN v ELSE ExpScale((v * EINV) \div FRAC, q - 1)

\* exp / np.exp of a logprob n <= 0
Exp(n) == ExpScale(ExpSeries((0 - n) % FRAC, 1), (0 - n) \div FRAC)

\* np.round(p*100, 2): the percentage in units of 0.01%, round-half-even
RoundPct(v) ==
  LET x == v * 10000
      q == x \div FRAC
      r == x % FRAC
  IN IF 2 * r > FRAC \/ (2 * r = FRAC /\ q % 2 = 1) THEN q + 1 ELSE q

(* ----------------------------------------------------------------- UTF-8 *)
DecodeFail == << -1 >>  \* outcome of .decode('utf-8') raising UnicodeDecodeError

Utf8Len(b) ==
  IF b < 128 THEN 1
  ELSE IF b >= 194 /\ b <= 223 THEN 2
  ELSE IF b >= 224 /\ b <= 239 THEN 3
  ELSE IF b >= 240 /\ b <= 244 THEN 4
  ELSE 0

IsCont(b) == b >= 128 /\ b <= 191

\* the second byte of a multi-byte character has a lead-dependent range
SecondOk(b1, b2) ==
  IF b1 = 224 THEN b2 >= 160 /\ b2 <= 191
  ELSE IF b1 = 237 THEN b2 >= 128 /\ b2 <= 159
  ELSE IF b1 = 240 THEN b2 >= 144 /\ b2 <= 191
  ELSE IF b1 = 244 THEN b2 >= 128 /\ b2 <= 143
  ELSE IsCont(b2)

CodePoint(bs, n) ==
  IF n = 1 THEN bs[1]
  ELSE IF n = 2 THEN (bs[1] - 192) * 64 + (bs[2] - 128)
  ELSE IF n = 3 THEN (bs[1] - 224) * 4096 + (bs[2] - 128) * 64 + (bs[3] - 128)
  ELSE (bs[1] - 240) * 262144 + (bs[2] - 128) * 4096
       + (bs[3] - 128) * 64 + (bs[4] - 128)

\* bytes(bs).decode('utf-8'): the code points, or DecodeFail
RECURSIVE Utf8Decode(_)
Utf8Decode(bs) ==
  IF bs = << >> THEN << >>
  ELSE LET n == Utf8Len(bs[1]) IN
    IF n = 0 \/ Len(bs) < n THEN DecodeFail
    ELSE IF n >= 2 /\ ~SecondOk(bs[1], bs[2]) THEN DecodeFail
    ELSE IF \E k \in 3..n : ~IsCont(bs[k]) THEN DecodeFail
    ELSE LET rest == Utf8Decode(SubSeq(bs, n + 1, Len(bs))) IN
      IF rest = DecodeFail THEN DecodeFail
      ELSE << CodePoint(bs, n) >> \o rest

(* ------------------------------------------------- the external service *)
PyNone == -1            \* None in an integer-valued argument
Undef == << -2 >>       \* a text variable the kernel has not defined yet

\* generated tokens: a complete 1-byte character and the two fragments of a
\* 2-byte character (lead byte, continuation byte), logprobs from the notebook
TokA == [token |-> "A", bytes |-> << 65 >>, logprob |-> -43, top_logprobs |-> << >>]
TokLead ==
  [token |-> "\\xc3", bytes |-> << 195 >>, logprob |-> -5760, top_logprobs |-> << >>]
TokCont ==
  [token |-> "\\xa9", bytes |-> << 169 >>, logprob |-> -28106, top_logprobs |-> << >>]
TokenSet == { TokA, TokLead, TokCont }

\* alternatives returned for one position, in the order returned, with
\* probabilities 98.65% (-447), exactly the threshold (-1681) and 1.34%
\* (-141316): a sorted and an unsorted list, one at the threshold, a tie
\* and no alternative; one just above the threshold (-1680), displayed with
\* the same rounded percentage as the one at the threshold; and the two ends
\* of the range: logprob 0.0 next to -9999.0, the value the service reports
\* for a very unlikely token
AltSamples ==
  { << >>,
    << [token |-> "favorite", logprob |-> -447],
       [token |-> "My", logprob |-> -141316] >>,
    << [token |-> "My", logprob |-> -141316],
       [token |-> "favorite", logprob |-> -447] >>,
    << [token |-> "favorite", logprob |-> -1681],
       [token |-> "My", logprob |-> -141316] >>,
    << [token |-> "favorite", logprob |-> -141316],
       [token |-> "My", logprob |-> -141316] >>,
    << [token |-> "the", logprob |-> -1680],
       [token |-> "My", logprob |-> -141316] >>,
    << [token |-> "favorite", logprob |-> 0],
       [token |-> "My", logprob |-> -9999 * FRAC] >> }

RECURSIVE SumProb(_)
SumProb(alts) ==
  IF alts = << >> THEN 0 ELSE Exp(Head(alts).logprob) + SumProb(Tail(alts))

\* lists of at most n alternatives of one position: distinct tokens whose
\* probabilities form part of one distribution (they sum to at most 1)
AltLists(n) ==
  { x \in AltSamples :
      /\ Len(x) <= n
      /\ SumProb(x) <= FRAC
      /\ \A a \in 1..Len(x) : \A b \in 1..Len(x) :
           a # b => x[a].token # x[b].token }

\* the fragments of a character are emitted in order; generation may stop
\* (max_tokens) between the fragments of a character
InOrder(c) ==
  \A k \in 1..Len(c) :
    /\ c[k] = TokCont => (k > 1 /\ c[k - 1] = TokLead)
    /\ (c[k] = TokLead /\ k < Len(c)) => c[k + 1] = TokCont

\* token sequences of a response: in-order sequences of at most MaxTokens
\* tokens, and one out-of-order sequence (a continuation byte with no lead)
Contents ==
  { c \in UNION { [1..k -> TokenSet] : k \in 0..MaxTokens } : InOrder(c) }
    \cup { << TokCont >> }

RECURSIVE ConcatBytes(_)
ConcatBytes(toks) ==
  IF toks = << >> THEN << >> ELSE Head(toks).bytes \o ConcatBytes(Tail(toks))

\* the message text the service reports next to a token sequence: the text
\* the tokens spell, or (a service-side inconsistency) another text
OtherText == << 66 >>
MessagesFor(toks) ==
  LET d == Utf8Decode(ConcatBytes(toks))
  IN IF d = DecodeFail THEN { OtherText } ELSE { d, OtherText }

\* the response recorded in the notebook for "Give me three random emojis":
\* nine byte fragments of three 4-byte characters
EmojiTokens ==
  << [token |-> "\\xf0\\x9f", bytes |-> << 240, 159 >>, logprob |-> -5760, top_logprobs |-> << >>],
     [token |-> "\\x8c", bytes |-> << 140 >>, logprob |-> -28106, top_logprobs |-> << >>],
     [token |-> "\\x88", bytes |-> << 136 >>, logprob |-> -76661, top_logprobs |-> << >>],
     [token |-> "\\xf0\\x9f", bytes |-> << 240, 159 >>, logprob |-> -6563, top_logprobs |-> << >>],
     [token |-> "\\x8d", bytes |-> << 141 >>, logprob |-> -31614, top_logprobs |-> << >>],
     [token |-> "\\x95", bytes |-> << 149 >>, logprob |-> -19401, top_logprobs |-> << >>],
     [token |-> "\\xf0\\x9f", bytes |-> << 240, 159 >>, logprob |-> -5121, top_logprobs |-> << >>],
     [token |-> "\\x9a", bytes |-> << 154 >>, logprob |-> -22162, top_logprobs |-> << >>],
     [token |-> "\\x80", bytes |-> << 128 >>, logprob |-> -43, top_logprobs |-> << >>] >>
EmojiText == << 127752, 127829, 128640 >>
EmojiResponse ==
  [object |-> "chat.completion", logprobs |-> TRUE,
   content |-> EmojiTokens, message |-> EmojiText]

NoResponse ==
  [object |-> "undefined", logprobs |-> FALSE, content |-> << >>, message |-> << >>]

WithTop(toks, alts) ==
  IF toks = << >> THEN toks ELSE [toks EXCEPT ![1].top_logprobs = alts]

\* what client.chat.completions.create may return for a request: logprobs
\* only when asked for, at most top_logprobs alternatives (read by the
\* notebook at the first position only, so only modelled there)
ResponsesTo(logprobs, top_logprobs) ==
  IF logprobs # "True"
  THEN { [object |-> "chat.completion", logprobs |-> FALSE,
          content |-> << >>, message |-> m] : m \in { << 65 >>, OtherText } }
  ELSE UNION { { [object |-> "chat.completion", logprobs |-> TRUE,
                  content |-> WithTop(c, a), message |-> m] :
                    a \in (IF c = << >> \/ top_logprobs = PyNone THEN { << >> }
                           ELSE AltLists(top_logprobs)),
                    m \in MessagesFor(c) } : c \in Contents }
       \cup (IF top_logprobs = PyNone THEN { EmojiResponse } ELSE { })

\* the same, tabulated for the argument values the notebook uses
ResponseTable ==
  [k \in { "None", "True" } \X { PyNone, 2, 3, 5 } |-> ResponsesTo(k[1], k[2])]

ServiceResponses(params) ==
  ResponseTable[<< params["logprobs"], params["top_logprobs"] >>]

(* ------------------------------------------------------------------ state *)
VARIABLES
  cell,                  \* the notebook cell being executed
  pc,                    \* position inside the cell
  item,                  \* index of the outer loop (headline, question, sentence)
  j,                     \* index of the inner loop over the response
  inflight,              \* requests handed to the client and not yet answered
  kwargs,                \* arguments of the latest get_completion call
  invocations,           \* calls of get_completion so far
  clientCalls,           \* calls of client.chat.completions.create so far
  API_RESPONSE,          \* the global the cells assign the response to
  respCell,              \* the cell whose request API_RESPONSE answers
  printed,               \* lines printed for the current response / cell
  decided,               \* outcome of the threshold test per alternative
  aggregated_bytes, joint_logprob, message_content, aggregated_text,
  report,                \* the final "text = / joint probability =" lines
  high_prob_completions, \* sentence index -> recorded token ("" = no key)
  hpcDefined,            \* whether the kernel holds high_prob_completions
  color_idx,
  err                    \* the exception that ended the run ("" = none)

vars == << cell, pc, item, j, inflight, kwargs, invocations, clientCalls, API_RESPONSE,
           respCell, printed, decided, aggregated_bytes, joint_logprob,
           message_content, aggregated_text, report, high_prob_completions,
           hpcDefined, color_idx, err >>

\* variant: the cell showing the first token runs before the first request
\* with logprobs
CellOrderFirstTokenEarly ==
  << "c10", "c20", "c12", "c21a", "c21b", "c23", "c25", "c30", "c34", "c35",
     "hl" >>

CellOrder == << "c10", "c12", "c20", "c21a", "c21b", "c23", "c25", "c30",
                "c34", "c35", "hl" >>
RequestCells == { "c10", "c12", "c21a", "c21b", "c23", "c30", "c35" }

\* length of the list a request cell loops over
Count(c) ==
  IF c \in { "c10", "c12" } THEN NumHeadlines
  ELSE IF c \in { "c21a", "c21b" } THEN NumQuestions
  ELSE IF c = "c30" THEN NumSentences
  ELSE 1

\* functions=None, as opposed to an empty list << >> or a list of function
\* definitions such as << 1 >>
NoFunctions == << PyNone >>

\* the defaults of get_completion's keyword parameters (lines 42-48)
DefaultArgs ==
  [model |-> "gpt-4", max_tokens |-> 500, temperature |-> FRAC,
   stop |-> "None", functions |-> NoFunctions, logprobs |-> "None",
   top_logprobs |-> PyNone]

\* keyword arguments of the get_completion call of each cell
CallArgs(c) ==
  [DefaultArgs EXCEPT
     !.model = IF c \in { "c23" } THEN "gpt-3.5-turbo-1106"
               ELSE IF c \in { "c30", "c35" } THEN "gpt-3.5-turbo" ELSE "gpt-4",
     !.logprobs = IF c = "c10" THEN "None" ELSE "True",
     !.top_logprobs = IF c = "c12" THEN 2
                      ELSE IF c \in { "c21b", "c30" } THEN 3
                      ELSE IF c = "c35" THEN 5 ELSE PyNone]

\* arguments a caller of get_completion may pass
KwargSets ==
  [model : { "gpt-4", "gpt-3.5-turbo" }, max_tokens : { 500, 1 },
   temperature : { FRAC, 0 }, stop : { "None", "." },
   functions : { NoFunctions, << >>, << 1 >> },
   logprobs : { "None", "True" }, top_logprobs : { PyNone, 2 }]

\* Python truth value of the functions argument
Truthy(f) == f # NoFunctions /\ f # << >>

\* The notebook stores into high_prob_completions (line 500) and never
\* creates it: a kernel either has no such name, or holds a dict made before
\* the run, whose entries (written by an earlier run of the same loop) the
\* notebook does not determine: no entries, or one per sentence.

\* variant: the functions entry is added whenever the argument is not None
ParamsFunctionsUnlessNone(c, i, args) ==
  [messages |-> << c, i >>] @@
  (IF args.functions # NoFunctions THEN args
   ELSE [k \in DOMAIN args \ { "functions" } |-> args[k]])

\* the params dict get_completion builds
Params(c, i, args) ==
  LET base == [model |-> args.model, messages |-> << c, i >>,
               max_tokens |-> args.max_tokens,
               temperature |-> args.temperature, stop |-> args.stop,
               logprobs |-> args.logprobs, top_logprobs |-> args.top_logprobs]
  IN IF Truthy(args.functions) THEN [functions |-> args.functions] @@ base
     ELSE base

NoReport == [text |-> Undef, joint |-> PyNone]

Init ==
  /\ cell = "c10" /\ pc = "call" /\ item = 1 /\ j = 1
  /\ inflight = << >> /\ kwargs = DefaultArgs
  /\ invocations = 0 /\ clientCalls = 0
  /\ API_RESPONSE = NoResponse /\ respCell = "none"
  /\ printed = << >> /\ decided = << >>
  /\ aggregated_bytes = << >> /\ joint_logprob = 0
  /\ message_content = Undef /\ aggregated_text = Undef
  /\ report = NoReport
  /\ hpcDefined \in BOOLEAN
  /\ high_prob_completions \in
       (IF hpcDefined
        THEN { [s \in 1..NumSentences |-> e] : e \in { "", "Breaking" } }
        ELSE { [s \in 1..NumSentences |-> ""] })
  /\ color_idx = 0
  /\ err = ""

(* --------------------------------------------------------- control flow *)
NextCell(c) ==
  LET k == CHOOSE n \in 1..Len(CellOrder) : CellOrder[n] = c
  IN IF k = Len(CellOrder) THEN "end" ELSE CellOrder[k + 1]

StartPc(c) ==
  IF c \in RequestCells THEN "call"
  ELSE IF c = "end" THEN "done" ELSE "run"

\* the outer loop takes its next element, or the next cell starts
Advance ==
  IF item < Count(cell)
  THEN /\ item' = item + 1 /\ pc' = "call" /\ cell' = cell
  ELSE /\ item' = 1 /\ cell' = NextCell(cell) /\ pc' = StartPc(NextCell(cell))

\* an uncaught exception ends the run
Raise(e) == /\ pc' = "error" /\ err' = e /\ cell' = cell /\ item' = item

(* -------------------------------------------------------- get_completion *)
\* variant: the next request is issued without waiting for the inner loop
AtRequestOverlapping == cell \in RequestCells /\ pc \in { "call", "process" }

\* control is at a statement API_RESPONSE = get_completion(...)
AtRequest == cell \in RequestCells /\ pc = "call"

\* get_completion called with arguments a, up to and including the one
\* client call (lines 40-62)
GetCompletionWith(a) ==
  /\ kwargs' = a
  /\ invocations' = invocations + 1
  /\ clientCalls' = clientCalls + 1
  /\ inflight' = Append(inflight, Params(cell, item, a))
  /\ pc' = "wait"
  /\ UNCHANGED << cell, item, j, API_RESPONSE, respCell, printed, decided,
                  aggregated_bytes, joint_logprob, message_content,
                  aggregated_text, report, high_prob_completions, hpcDefined,
                  color_idx, err >>

\* a request cell calls get_completion with its arguments
GetCompletion == AtRequest /\ GetCompletionWith(CallArgs(cell))

\* get_completion called by any caller with any arguments
GetCompletionAny ==
  /\ cell = "caller" /\ pc = "call"
  /\ \E a \in KwargSets : GetCompletionWith(a)

\* the client returns; get_completion returns the completion unchanged and
\* the cell assigns it to API_RESPONSE (lines 62-63 and the call site)
ClientReturn ==
  /\ pc = "wait" /\ inflight # << >>
  /\ \E r \in ServiceResponses(Head(inflight)) : API_RESPONSE' = r
  /\ inflight' = Tail(inflight)
  /\ respCell' = cell
  /\ pc' = "process" /\ j' = 1
  /\ printed' = << >> /\ decided' = << >>
  /\ UNCHANGED << cell, item, invocations, kwargs, clientCalls, aggregated_bytes,
                  joint_logprob, message_content, aggregated_text, report,
                  high_prob_completions, hpcDefined, color_idx, err >>

\* variant: a failed client call is attempted again
ClientRaiseRetried ==
  /\ pc = "wait" /\ inflight # << >>
  /\ clientCalls' = clientCalls + 1
  /\ UNCHANGED << cell, pc, item, j, inflight, invocations, kwargs, API_RESPONSE,
                  respCell, printed, decided, aggregated_bytes, joint_logprob,
                  message_content, aggregated_text, report,
                  high_prob_completions, hpcDefined, color_idx, err >>

\* the client raises; nothing in get_completion or the cell catches it
ClientRaise ==
  /\ pc = "wait" /\ inflight # << >>
  /\ inflight' = Tail(inflight)
  /\ Raise("APIError")
  /\ UNCHANGED << j, invocations, kwargs, clientCalls, API_RESPONSE, respCell, printed,
                  decided, aggregated_bytes, joint_logprob, message_content,
                  aggregated_text, report, high_prob_completions, hpcDefined,
                  color_idx >>

(* ------------------------------------------------------- reporting loops *)
\* variant: the first-order approximation 1 + x in place of exp
LinearProbabilityFirstOrder(lp) == FRAC + lp

\* np.exp(logprob) as used in the report lines and the threshold test
LinearProbability(lp) == Exp(lp)

\* one printed line: token, logprob, np.round(np.exp(logprob)*100,2)
ReportLine(t) ==
  [token |-> t.token, logprob |-> t.logprob,
   pct |-> RoundPct(LinearProbability(t.logprob))]

\* the sequence the inner loop of a request cell iterates over
Items(c, resp) ==
  IF c = "c10" THEN << resp.message >>
  ELSE IF c \in { "c12", "c30" }
    THEN (IF resp.content = << >> THEN << >> ELSE resp.content[1].top_logprobs)
  ELSE IF c \in { "c21a", "c21b" } THEN resp.content
  ELSE << >>

\* evaluating the loop header fails: logprobs is None, or content[0] on []
HeaderError(c, resp) ==
  IF c \in { "c12", "c20", "c21a", "c21b", "c25", "c30", "c34", "hl" }
     /\ ~resp.logprobs THEN "TypeError"
  ELSE IF c \in { "c12", "c20", "c30" } /\ resp.content = << >> THEN "IndexError"
  ELSE ""

\* cell 10: print(API_RESPONSE.choices[0].message.content)
PrintContent ==
  /\ cell = "c10" /\ pc = "process" /\ j = 1
  /\ printed' = Append(printed, API_RESPONSE.message)
  /\ j' = 2
  /\ UNCHANGED << cell, pc, item, inflight, invocations, kwargs, clientCalls,
                  API_RESPONSE, respCell, decided, aggregated_bytes,
                  joint_logprob, message_content, aggregated_text, report,
                  high_prob_completions, hpcDefined, color_idx, err >>

\* cell 12 (lines 189-190): one alternative of the first position
\* cell 21 (lines 324-325, 334-335): one token of the response
ReportStep ==
  /\ cell \in { "c12", "c21a", "c21b" } /\ pc = "process"
  /\ HeaderError(cell, API_RESPONSE) = ""
  /\ j <= Len(Items(cell, API_RESPONSE))
  /\ printed' = Append(printed, ReportLine(Items(cell, API_RESPONSE)[j]))
  /\ j' = j + 1
  /\ UNCHANGED << cell, pc, item, inflight, invocations, kwargs, clientCalls,
                  API_RESPONSE, respCell, decided, aggregated_bytes,
                  joint_logprob, message_content, aggregated_text, report,
                  high_prob_completions, hpcDefined, color_idx, err >>

\* variants: every alternative with a non-zero probability passes; the
\* comparison is reversed; the displayed (rounded) percentage is compared
MeetsThresholdRounded(lp) ==
  RoundPct(LinearProbability(lp)) >= RoundPct(THRESHOLD)
MeetsThresholdAny(lp) == LinearProbability(lp) > 0
MeetsThresholdReversed(lp) == LinearProbability(lp) < THRESHOLD

\* the threshold test of the autocomplete loop (line 499)
MeetsThreshold(lp) == LinearProbability(lp) > THRESHOLD

\* cell 30 (lines 497-500): report one alternative, record it when it
\* passes the threshold; the store raises NameError when the kernel has no
\* high_prob_completions (the notebook never defines it)
AutocompleteStep ==
  /\ cell = "c30" /\ pc = "process"
  /\ HeaderError(cell, API_RESPONSE) = ""
  /\ j <= Len(Items(cell, API_RESPONSE))
  /\ LET alt == Items(cell, API_RESPONSE)[j] IN
       /\ printed' = Append(printed, ReportLine(alt))
       /\ decided' = Append(decided, MeetsThreshold(alt.logprob))
       /\ IF MeetsThreshold(alt.logprob)
          THEN IF hpcDefined
               THEN /\ high_prob_completions' =
                         [high_prob_completions EXCEPT ![item] = alt.token]
                    /\ j' = j + 1
                    /\ UNCHANGED << cell, pc, item, err >>
               ELSE /\ Raise("NameError")
                    /\ UNCHANGED << j, high_prob_completions >>
          ELSE /\ j' = j + 1
               /\ UNCHANGED << cell, pc, item, err, high_prob_completions >>
  /\ UNCHANGED << inflight, invocations, kwargs, clientCalls, API_RESPONSE, respCell,
                  aggregated_bytes, joint_logprob, message_content,
                  aggregated_text, report, hpcDefined, color_idx >>

\* the inner loop of a request cell is exhausted: the cell's trailing
\* statement runs and the outer loop continues (cells 23 and 35 have no
\* inner loop)
LoopEnd ==
  /\ cell \in RequestCells /\ pc = "process"
  /\ HeaderError(cell, API_RESPONSE) = ""
  /\ j > Len(Items(cell, API_RESPONSE))
  /\ Advance
  /\ UNCHANGED << j, inflight, invocations, kwargs, clientCalls, API_RESPONSE, respCell,
                  printed, decided, aggregated_bytes, joint_logprob,
                  message_content, aggregated_text, report,
                  high_prob_completions, hpcDefined, color_idx, err >>

\* API_RESPONSE.choices[0].logprobs.content[0] on a response without
\* logprobs or without tokens
HeaderRaise ==
  /\ pc \in { "process", "run" }
  /\ HeaderError(cell, API_RESPONSE) # ""
  /\ Raise(HeaderError(cell, API_RESPONSE))
  /\ UNCHANGED << j, inflight, invocations, kwargs, clientCalls, API_RESPONSE, respCell,
                  printed, decided, aggregated_bytes, joint_logprob,
                  message_content, aggregated_text, report,
                  high_prob_completions, hpcDefined, color_idx >>

\* cell 20: API_RESPONSE.choices[0].logprobs.content[0].token
ShowFirstToken ==
  /\ cell = "c20" /\ pc = "run"
  /\ HeaderError(cell, API_RESPONSE) = ""
  /\ printed' = << API_RESPONSE.content[1].token >>
  /\ Advance
  /\ UNCHANGED << j, inflight, invocations, kwargs, clientCalls, API_RESPONSE, respCell,
                  decided, aggregated_bytes, joint_logprob, message_content,
                  aggregated_text, report, high_prob_completions, hpcDefined,
                  color_idx, err >>

(* ----------------------------------------------------- aggregation cells *)
\* variant: the comparison is made but its outcome ignored
ConsistencyCheckIgnored(m, t) == TRUE

\* assert message_content == aggregated_text (lines 404, 573)
ConsistencyCheck(m, t) == m = t

\* exp(joint_logprob) (lines 407, 576)
JointProbability(jl) == Exp(jl)

\* the value of joint_logprob after a loop over toks
RECURSIVE SumLogprobs(_)
SumLogprobs(toks) ==
  IF toks = << >> THEN 0 ELSE Head(toks).logprob + SumLogprobs(Tail(toks))

\* variant: the accumulator keeps the value an earlier cell left in it
InitialLogprobKept == joint_logprob

\* the accumulators' initial values (lines 394-395, 557-558)
InitialLogprob == 0

\* aggregated_bytes = []; joint_logprob = 0.0
AggregateInit ==
  /\ cell \in { "c25", "c34" } /\ pc = "run"
  /\ HeaderError(cell, API_RESPONSE) = ""
  /\ aggregated_bytes' = << >>
  /\ joint_logprob' = InitialLogprob
  /\ j' = 1 /\ pc' = "loop"
  /\ printed' = << >> /\ report' = NoReport
  /\ UNCHANGED << cell, item, inflight, invocations, kwargs, clientCalls, API_RESPONSE,
                  respCell, decided, message_content, aggregated_text,
                  high_prob_completions, hpcDefined, color_idx, err >>

\* cell 25, loop body (lines 396-398)
AggregateStepA ==
  /\ cell = "c25" /\ pc = "loop"
  /\ j <= Len(API_RESPONSE.content)
  /\ aggregated_bytes' = aggregated_bytes \o API_RESPONSE.content[j].bytes
  /\ joint_logprob' = joint_logprob + API_RESPONSE.content[j].logprob
  /\ j' = j + 1
  /\ UNCHANGED << cell, pc, item, inflight, invocations, kwargs, clientCalls,
                  API_RESPONSE, respCell, printed, decided, message_content,
                  aggregated_text, report, high_prob_completions, hpcDefined,
                  color_idx, err >>

\* cell 25 after the loop (lines 400-407): decode once, print, assert, report
AggregateTailA ==
  /\ cell = "c25" /\ pc = "loop"
  /\ j > Len(API_RESPONSE.content)
  /\ message_content' = API_RESPONSE.message
  /\ LET d == Utf8Decode(aggregated_bytes) IN
       IF d = DecodeFail
       THEN /\ Raise("UnicodeDecodeError")
            /\ UNCHANGED << aggregated_text, printed, report >>
       ELSE /\ aggregated_text' = d
            /\ printed' = Append(printed, d)
            /\ IF ConsistencyCheck(API_RESPONSE.message, d)
               THEN /\ report' = [text |-> d,
                                  joint |-> JointProbability(joint_logprob)]
                    /\ Advance /\ err' = err
               ELSE /\ Raise("AssertionError")
                    /\ UNCHANGED report
  /\ UNCHANGED << j, inflight, invocations, kwargs, clientCalls, API_RESPONSE, respCell,
                  decided, aggregated_bytes, joint_logprob,
                  high_prob_completions, hpcDefined, color_idx >>

\* cell 34, loop body (lines 559-571): accumulate, then read the message and
\* decode the bytes aggregated so far, inside the loop
AggregateStepB ==
  /\ cell = "c34" /\ pc = "loop"
  /\ j <= Len(API_RESPONSE.content)
  /\ aggregated_bytes' = aggregated_bytes \o API_RESPONSE.content[j].bytes
  /\ joint_logprob' = joint_logprob + API_RESPONSE.content[j].logprob
  /\ message_content' = API_RESPONSE.message
  /\ LET d == Utf8Decode(aggregated_bytes') IN
       IF d = DecodeFail
       THEN /\ Raise("UnicodeDecodeError")
            /\ UNCHANGED << j, aggregated_text, printed >>
       ELSE /\ aggregated_text' = d
            /\ printed' = Append(printed, d)
            /\ j' = j + 1
            /\ UNCHANGED << cell, pc, item, err >>
  /\ UNCHANGED << inflight, invocations, kwargs, clientCalls, API_RESPONSE, respCell,
                  decided, report, high_prob_completions, hpcDefined,
                  color_idx >>

\* cell 34 after the loop (lines 573-576): the assert and the report read
\* the globals message_content and aggregated_text as the loop left them
AggregateTailB ==
  /\ cell = "c34" /\ pc = "loop"
  /\ j > Len(API_RESPONSE.content)
  /\ IF message_content = Undef \/ aggregated_text = Undef
     THEN Raise("NameError") /\ UNCHANGED report
     ELSE IF ConsistencyCheck(message_content, aggregated_text)
       THEN /\ report' = [text |-> aggregated_text,
                          joint |-> JointProbability(joint_logprob)]
            /\ Advance /\ err' = err
       ELSE Raise("AssertionError") /\ UNCHANGED report
  /\ UNCHANGED << j, inflight, invocations, kwargs, clientCalls, API_RESPONSE, respCell,
                  printed, decided, aggregated_bytes, joint_logprob,
                  message_content, aggregated_text, high_prob_completions,
                  hpcDefined, color_idx >>

(* --------------------------------------------------------- highlight_text *)
Colors == << 95, 92, 93, 91, 94 >>

\* highlight_text(API_RESPONSE), lines 591-595
HighlightInit ==
  /\ cell = "hl" /\ pc = "run"
  /\ HeaderError(cell, API_RESPONSE) = ""
  /\ color_idx' = 0
  /\ j' = 1 /\ pc' = "loop" /\ printed' = << >>
  /\ UNCHANGED << cell, item, inflight, invocations, kwargs, clientCalls, API_RESPONSE,
                  respCell, decided, aggregated_bytes, joint_logprob,
                  message_content, aggregated_text, report,
                  high_prob_completions, hpcDefined, err >>

\* lines 596-601: decode the token's own bytes, print it in the current
\* colour, move to the next colour
HighlightStep ==
  /\ cell = "hl" /\ pc = "loop"
  /\ j <= Len(API_RESPONSE.content)
  /\ LET d == Utf8Decode(API_RESPONSE.content[j].bytes) IN
       IF d = DecodeFail
       THEN /\ Raise("UnicodeDecodeError")
            /\ UNCHANGED << j, printed, color_idx >>
       ELSE /\ printed' = Append(printed,
                                 [color |-> Colors[color_idx + 1], text |-> d])
            /\ color_idx' = (color_idx + 1) % Len(Colors)
            /\ j' = j + 1
            /\ UNCHANGED << cell, pc, item, err >>
  /\ UNCHANGED << inflight, invocations, kwargs, clientCalls, API_RESPONSE, respCell,
                  decided, aggregated_bytes, joint_logprob, message_content,
                  aggregated_text, report, high_prob_completions, hpcDefined >>

\* lines 602-603: the total number of tokens
HighlightFinish ==
  /\ cell = "hl" /\ pc = "loop"
  /\ j > Len(API_RESPONSE.content)
  /\ printed' = Append(printed, [total |-> Len(API_RESPONSE.content)])
  /\ Advance
  /\ UNCHANGED << j, inflight, invocations, kwargs, clientCalls, API_RESPONSE, respCell,
                  decided, aggregated_bytes, joint_logprob, message_content,
                  aggregated_text, report, high_prob_completions, hpcDefined,
                  color_idx, err >>

(* ---------------------------------------------------------- specification *)
Next ==
  \/ GetCompletion
  \/ ClientReturn
  \/ ClientRaise
  \/ PrintContent
  \/ ReportStep
  \/ AutocompleteStep
  \/ LoopEnd
  \/ HeaderRaise
  \/ ShowFirstToken
  \/ AggregateInit
  \/ AggregateStepA
  \/ AggregateTailA
  \/ AggregateStepB
  \/ AggregateTailB
  \/ HighlightInit
  \/ HighlightStep
  \/ HighlightFinish

Spec == Init /\ [][Next]_vars

\* get_completion on its own: one call with arbitrary arguments
InitGetCompletion ==
  /\ cell = "caller" /\ pc = "call" /\ item = 1 /\ j = 1
  /\ inflight = << >> /\ kwargs = DefaultArgs
  /\ invocations = 0 /\ clientCalls = 0
  /\ API_RESPONSE = NoResponse /\ respCell = "none"
  /\ printed = << >> /\ decided = << >>
  /\ aggregated_bytes = << >> /\ joint_logprob = 0
  /\ message_content = Undef /\ aggregated_text = Undef
  /\ report = NoReport
  /\ hpcDefined = FALSE
  /\ high_prob_completions = [s \in 1..NumSentences |-> ""]
  /\ color_idx = 0
  /\ err = ""

NextGetCompletion ==
  \/ GetCompletionAny
  \/ ClientReturn
  \/ ClientRaise

SpecGetCompletion == InitGetCompletion /\ [][NextGetCompletion]_vars

\* The extensions aggregation cell (lines 556-576) on its own: the cell is
\* run on whatever response API_RESPONSE holds, in a kernel where the emoji
\* aggregation cell (lines 393-407) has not run, or has run to its end on an
\* earlier response and left message_content, aggregated_text behind.
InitExtensionsCell ==
  /\ cell = "c34" /\ pc = "run" /\ item = 1 /\ j = 1
  /\ inflight = << >> /\ kwargs = CallArgs("c35")
  /\ invocations = 2 /\ clientCalls = 2
  /\ API_RESPONSE \in ResponseTable[<< "True", 5 >>] /\ respCell = "c35"
  /\ printed = << >> /\ decided = << >>
  /\ aggregated_bytes = << >> /\ joint_logprob = 0
  /\ \/ /\ message_content = Undef /\ aggregated_text = Undef
        /\ report = NoReport
     \/ \E r \in ResponseTable[<< "True", PyNone >>] :
          /\ Utf8Decode(ConcatBytes(r.content)) = r.message
          /\ message_content = r.message /\ aggregated_text = r.message
          /\ report = [text |-> r.message,
                       joint |-> JointProbability(SumLogprobs(r.content))]
  /\ hpcDefined = FALSE
  /\ high_prob_completions = [s \in 1..NumSentences |-> ""]
  /\ color_idx = 0
  /\ err = ""

NextExtensionsCell ==
  \/ AggregateInit
  \/ AggregateStepB
  \/ AggregateTailB

SpecExtensionsCell == InitExtensionsCell /\ [][NextExtensionsCell]_vars

\* highlight_text (lines 590-603) on its own: called on a response with any
\* token sequence of up to MaxHighlightTokens tokens, or the recorded emoji
\* response
HighlightResponses ==
  { [object |-> "chat.completion", logprobs |-> TRUE, content |-> c,
     message |-> IF Utf8Decode(ConcatBytes(c)) = DecodeFail THEN OtherText
                 ELSE Utf8Decode(ConcatBytes(c))] :
       c \in { x \in UNION { [1..k -> TokenSet] :
                                k \in 0..MaxHighlightTokens } : InOrder(x) } }
    \cup { EmojiResponse }

InitHighlightText ==
  /\ cell = "hl" /\ pc = "run" /\ item = 1 /\ j = 1
  /\ inflight = << >> /\ kwargs = CallArgs("c35")
  /\ invocations = 1 /\ clientCalls = 1
  /\ API_RESPONSE \in HighlightResponses /\ respCell = "c35"
  /\ printed = << >> /\ decided = << >>
  /\ aggregated_bytes = << >> /\ joint_logprob = 0
  /\ message_content = Undef /\ aggregated_text = Undef
  /\ report = NoReport
  /\ hpcDefined = FALSE
  /\ high_prob_completions = [s \in 1..NumSentences |-> ""]
  /\ color_idx = 0
  /\ err = ""

NextHighlightText ==
  \/ HighlightInit
  \/ HighlightStep
  \/ HighlightFinish

SpecHighlightText == InitHighlightText /\ [][NextHighlightText]_vars

(* ================================================================ claims *)
Tokens == API_RESPONSE.content

\* an aggregation cell has just printed its report for API_RESPONSE
AfterAggregation ==
  \/ cell = "c30" /\ pc = "call" /\ item = 1
  \/ cell = "c35" /\ pc = "call"

\* C1: the joint log-probability is the sum of the logprobs of the tokens
\* taken so far, starting from 0; nothing is exponentiated inside the loop;
\* the reported joint probability is exp(sum of all logprobs), and exactly
\* 1 for an empty token sequence.
JointIsExpOfSum ==
  /\ (cell \in { "c25", "c34" } /\ pc = "loop")
       => /\ joint_logprob = SumLogprobs(SubSeq(Tokens, 1, j - 1))
          /\ report.joint = PyNone
  /\ AfterAggregation
       => /\ report.joint = Exp(SumLogprobs(Tokens))
          /\ (Tokens = << >> => joint_logprob = 0 /\ report.joint = FRAC)

JointOfEmojiReported ==
  /\ AfterAggregation /\ API_RESPONSE = EmojiResponse
  /\ report.joint = Exp(SumLogprobs(EmojiTokens)) /\ report.joint > 0

\* C2: every decode an aggregation cell performs is one decode of the
\* buffer holding the bytes of all tokens of the response.
DecodesWholeBufferOnce ==
  (cell \in { "c25", "c34" } /\ pc \in { "loop", "error" })
    => /\ Len(printed) <= 1
       /\ \A k \in 1..Len(printed) : printed[k] = Utf8Decode(ConcatBytes(Tokens))

DecodeErrorOnlyIfWholeInvalid ==
  err = "UnicodeDecodeError" => Utf8Decode(ConcatBytes(Tokens)) = DecodeFail

\* the alternatives the autocomplete loop has decided on
Alts == Items("c30", API_RESPONSE)
InAutocomplete == cell = "c30" /\ pc \in { "process", "error" } /\ respCell = "c30"

\* C5: an alternative is accepted exactly when its linear probability is at
\* least the threshold.
AcceptedIffAtLeastThreshold ==
  InAutocomplete =>
    \A k \in 1..Len(decided) :
      decided[k] <=> (LinearProbability(Alts[k].logprob) >= THRESHOLD)

\* the first alternative whose logprob is the greatest
SelectTopAlternative(alts) ==
  alts[CHOOSE k \in 1..Len(alts) :
         /\ \A m \in 1..Len(alts) : alts[m].logprob <= alts[k].logprob
         /\ \A m \in 1..(k - 1) : alts[m].logprob < alts[k].logprob]

Unprocessed ==
  IF respCell = cell /\ cell \in RequestCells
  THEN Len(Items(cell, API_RESPONSE)) - Len(printed) ELSE 0

\* C7: at most one request is outstanding, and while one is outstanding
\* every element of the previous response has been reported.
OneRequestAtATime ==
  /\ Len(inflight) <= 1
  /\ inflight # << >> => Unprocessed = 0 /\ pc = "wait"

NextRequestAfterProcessing ==
  /\ cell = "c30" /\ item = 2 /\ inflight # << >> /\ respCell = "c30"
  /\ Len(printed) = 2 /\ Len(Items(cell, API_RESPONSE)) = 2

\* C8: what is reported and recorded for a response is determined by that
\* response: the report is its decoded text and joint probability, and a
\* suggestion held for a sentence after its loop is an alternative of the
\* sentence's own response that passed the threshold.
OutcomeFromOwnResponse ==
  /\ AfterAggregation
       => /\ report.text = Utf8Decode(ConcatBytes(Tokens))
          /\ report.joint = Exp(SumLogprobs(Tokens))
  /\ (cell = "c30" /\ pc = "process" /\ j > Len(Alts)
      /\ high_prob_completions[item] # "")
       => \E k \in 1..Len(Alts) :
            Alts[k].token = high_prob_completions[item] /\ decided[k]

\* C9: get_completion makes exactly one client call per invocation; a step
\* into the error outcome makes no further call, substitutes no response
\* and reports nothing, and no step follows an error.
ErrorsSurfaceWithoutRetry ==
  [][ /\ clientCalls' = invocations'
      /\ pc # "error"
      /\ pc' = "error" => /\ clientCalls' = clientCalls
                          /\ API_RESPONSE' = API_RESPONSE
                          /\ report' = report
                          /\ inflight' = << >> ]_vars

ClientFailureSurfaced ==
  pc = "error" /\ err = "APIError" /\ cell = "c30" /\ item = 2
  /\ clientCalls = invocations /\ inflight = << >>

\* C10: for two alternatives decided against the threshold, if the first has
\* at least the linear probability of the second and the second is accepted,
\* the first is accepted too.
ThresholdMonotonic ==
  InAutocomplete =>
    \A a \in 1..Len(decided) : \A b \in 1..Len(decided) :
      (LinearProbability(Alts[a].logprob) >= LinearProbability(Alts[b].logprob)
       /\ decided[b]) => decided[a]

MixedDecisions ==
  /\ InAutocomplete /\ Len(decided) = 2
  /\ decided[2] /\ ~decided[1]
  /\ LinearProbability(Alts[2].logprob) > LinearProbability(Alts[1].logprob)

\* the elements the reporting loop of the current response has printed
Reported == SubSeq(Items(cell, API_RESPONSE), 1, Len(printed))
InReportLoop ==
  /\ cell \in { "c12", "c21a", "c21b", "c30" } /\ respCell = cell
  /\ pc \in { "process", "error" } /\ HeaderError(cell, API_RESPONSE) = ""

\* C11 as stated: every linear probability reported or compared is exp of
\* the element's own logprob, is greater than 0 and at most 1, and is
\* exactly 1 for logprob 0.
LinearProbabilityInHalfOpenUnit ==
  InReportLoop =>
    \A k \in 1..Len(printed) :
      /\ printed[k].pct = RoundPct(Exp(Reported[k].logprob))
      /\ Exp(Reported[k].logprob) > 0 /\ Exp(Reported[k].logprob) <= FRAC
      /\ Reported[k].logprob = 0 => Exp(Reported[k].logprob) = FRAC

\* C11 (amended): every linear probability reported or compared against the
\* threshold is exp of the element's own logprob, lies between 0 and 1
\* inclusive (0 by underflow), and is exactly 1, shown as 100.0, for
\* logprob 0.
LinearProbabilityInUnit ==
  InReportLoop =>
    /\ \A k \in 1..Len(printed) :
         /\ printed[k].logprob = Reported[k].logprob
         /\ printed[k].pct = RoundPct(Exp(Reported[k].logprob))
         /\ Exp(Reported[k].logprob) >= 0 /\ Exp(Reported[k].logprob) <= FRAC
         /\ Reported[k].logprob = 0
              => Exp(Reported[k].logprob) = FRAC /\ printed[k].pct = 10000
    /\ \A k \in 1..Len(decided) :
         decided[k] <=> (Exp(Reported[k].logprob) > THRESHOLD)

BothEndsReported ==
  /\ cell = "c30" /\ pc = "process" /\ Len(printed) = 2 /\ Len(decided) = 2
  /\ Reported[1].logprob = 0 /\ printed[1].pct = 10000 /\ decided[1]
  /\ Reported[2].logprob = -9999 * FRAC /\ printed[2].pct = 0 /\ ~decided[2]

\* the inner loop over the alternatives of the current sentence is exhausted
SentenceDone ==
  /\ cell = "c30" /\ pc = "process" /\ respCell = "c30"
  /\ HeaderError(cell, API_RESPONSE) = "" /\ j > Len(Alts)

\* C12: when the autocomplete loop is through with a sentence (later
\* iterations store under their own sentence only), a suggestion is held for
\* the sentence exactly when some alternative of the sentence's own response
\* has a linear probability of at least the threshold; otherwise none is.
SuggestionIffOwnAlternativeMeets ==
  SentenceDone =>
    (high_prob_completions[item] # ""
       <=> \E k \in 1..Len(Alts) :
             LinearProbability(Alts[k].logprob) >= THRESHOLD)

\* C13: the threshold decision for an alternative is taken on the unrounded
\* linear probability and the rounding enters the printed percentage only:
\* an alternative whose displayed percentage reaches the displayed threshold
\* while its probability does not exceed the threshold is not accepted.
DecisionOnUnroundedProbability ==
  InAutocomplete =>
    \A k \in 1..Len(decided) :
      /\ printed[k].pct = RoundPct(Exp(Alts[k].logprob))
      /\ decided[k] => Exp(Alts[k].logprob) > THRESHOLD
      /\ (printed[k].pct >= RoundPct(THRESHOLD)
          /\ Exp(Alts[k].logprob) <= THRESHOLD) => ~decided[k]
      /\ Exp(Alts[k].logprob) > THRESHOLD => decided[k]

\* the first sentence's alternative "the" was displayed as 95.0 and accepted;
\* the second sentence's alternative is displayed as 95.0 and rejected
SameDisplayDifferentDecision ==
  /\ hpcDefined /\ cell = "c30" /\ pc = "process" /\ item = 2
  /\ high_prob_completions[1] = "the"
  /\ RoundPct(Exp(-1680)) = RoundPct(THRESHOLD)
  /\ Len(decided) >= 1 /\ printed[1].pct = RoundPct(THRESHOLD) /\ ~decided[1]

RequestKeys ==
  { "model", "messages", "max_tokens", "temperature", "stop", "logprobs",
    "top_logprobs" }

ReadsLogprobs ==
  \/ cell \in { "c12", "c21a", "c21b", "c30" } /\ pc = "process"
  \/ cell \in { "c20", "c25", "c34", "hl" } /\ pc \in { "run", "loop" }

\* control is inside a loop over content[0].top_logprobs of API_RESPONSE
ReadsTopAlternatives == cell \in { "c12", "c30" } /\ pc = "process"

\* C15: in notebook order, whenever logprobs.content of API_RESPONSE is
\* read, API_RESPONSE answers the latest request, that request was made with
\* logprobs=True and the response carries logprobs; whenever top_logprobs
\* is iterated the request asked for at least one alternative; no run ends
\* with the TypeError of reading logprobs that are None.
LogprobsReadOnlyWhenRequested ==
  /\ ReadsLogprobs =>
       /\ inflight = << >> /\ kwargs = CallArgs(respCell)
       /\ kwargs.logprobs = "True" /\ API_RESPONSE.logprobs
  /\ ReadsTopAlternatives => kwargs.top_logprobs >= 1 /\ respCell = cell
  /\ err # "TypeError"

\* a later cell reads the logprobs of the response an earlier cell requested
EarlierResponseRead ==
  /\ cell = "c20" /\ pc = "run" /\ respCell = "c12"
  /\ kwargs.logprobs = "True" /\ kwargs.top_logprobs = 2
  /\ API_RESPONSE.logprobs /\ Len(API_RESPONSE.content) = MaxTokens

\* C16: when the assert of the extensions cell is evaluated, message_content
\* and aggregated_text are the message text and the decoded token bytes of
\* the current response, for every token sequence, the empty one included.
AssertComparesCurrentResponse ==
  (cell = "c34" /\ pc = "loop" /\ j > Len(Tokens))
    => /\ message_content = API_RESPONSE.message
       /\ aggregated_text = Utf8Decode(ConcatBytes(Tokens))

\* the lines highlight_text prints for the first n tokens
HighlightedPrefix(n) ==
  [k \in 1..n |-> [color |-> Colors[((k - 1) % 5) + 1],
                   text |-> Utf8Decode(Tokens[k].bytes)]]

\* C17: inside highlight_text color_idx is within 0..4 and the tokens taken
\* so far were printed once each, in order, the i-th (from 0) in colour
\* i mod 5; once highlight_text is over, every token of the response has
\* been printed so and the total printed is the number of tokens.
EveryTokenHighlightedInTurn ==
  /\ (cell = "hl" /\ pc \in { "loop", "error" })
       => /\ color_idx \in 0..4 /\ color_idx = (j - 1) % 5
          /\ Len(printed) = j - 1 /\ j - 1 <= Len(Tokens)
          /\ printed = HighlightedPrefix(j - 1)
  /\ ~(cell = "hl" /\ pc = "error")
  /\ (respCell = "c35" /\ pc = "done")
       => printed = Append(HighlightedPrefix(Len(Tokens)),
                           [total |-> Len(Tokens)])

====
